---- MODULE Spec2Model ----
(***************************************************************************)
(* Model of the article generation backend (backend/app):                  *)
(*   - main.lifespan and the module-level service singletons,              *)
(*   - QdrantService.__init__ / _verify_connection_with_retry,             *)
(*   - ContentGeneratorService.generate_article and its helpers,           *)
(*   - QdrantService.search_similar_articles,                              *)
(*   - LangChainService.generate_article / extract_metadata.               *)
(* Spec serves one request at a time.  Every external call (Qdrant         *)
(* introspection, embedding, vector search, LLM) is a step whose reply is  *)
(* chosen by the environment.                                              *)
(* UnitSpec calls the text helpers of ContentGeneratorService one after    *)
(* the other on every short text.                                          *)
(* ConcSpec runs the generate_article calls of two clients on one event    *)
(* loop, with cancellation at the awaits.                                  *)
(* AdminSpec covers QdrantService.initialize_collection and GET /health.   *)
(***************************************************************************)
EXTENDS Integers, Sequences, FiniteSets, Bags, TLC

VARIABLES
    pc,                 \* position of the process: the call it waits for, or idle/done
    qdrant_service,     \* qdrant_service._qdrant_service: "None" | "QdrantService"
    langchain_service,  \* langchain_service._langchain_service
    content_generator,  \* content_generator._content_generator
    caller,             \* who is constructing QdrantService: "lifespan" | "request"
    attempt,            \* loop variable of _verify_connection_with_retry
    retry_delay,        \* local retry_delay of _verify_connection_with_retry
    outcomes,           \* history: outcome of every get_collections() call of the current guard run
    sleeps,             \* history: argument of every time.sleep() of the current guard run
    raised,             \* attempt whose exception left _verify_connection_with_retry (0: none)
    verifyRuns,         \* history: number of runs of _verify_connection_with_retry
    req,                \* the request being served (<<>> when none yet)
    similar_articles,   \* local similar_articles of generate_article
    rag_sources_count,  \* local rag_sources_count of generate_article
    searchCall,         \* history: arguments of client.search() of this request (<<>>: not issued)
    llmContext,         \* history: RAG entries put in the generation prompt
    article_content,    \* text returned by the generation call (<<>> wrapped: none)
    validation_result,  \* local validation_result of generate_article (<<>>: none yet)
    metaReply,          \* history: what the metadata LLM call came back with (<<>>: no call)
    extracted_metadata, \* local extracted_metadata of _extract_article_metadata
    metadata,           \* local metadata of generate_article (<<>>: none built)
    article_sections,   \* _extract_sections(article_content), wrapped (<<>>: not called)
    calls,              \* history: external calls issued for this request, in order
    replies,            \* history: "ok" | "raise" for every answered call of `calls`
    stages,             \* history: pipeline stages entered for this request, in order
    response,           \* envelope returned by generate_article (<<>>: none yet)
    httpError,          \* TRUE when the router answered HTTP 500 instead of an envelope
    llm,                \* settings of the shared client LangChainService.llm (<<>>: not built)
    frame,              \* ConcSpec: the locals of each running generate_article coroutine
    submitted,          \* ConcSpec history: the request each client sent (<<>>: none)
    received,           \* ConcSpec history: what each client's request got back from its calls
    returned,           \* ConcSpec: the envelope each client got (<<>>: none)
    collection,         \* AdminSpec: the articles collection in Qdrant (<<>>: it does not exist)
    initCalls,          \* AdminSpec history: the calls of initialize_collection
    health_status,      \* AdminSpec: local health_status of ContentGeneratorService.health_check
    healthChecks,       \* AdminSpec history: how the service checks of this health check ended
    healthResponse      \* AdminSpec: what GET /health answered (<<>>: nothing yet)

vars == << pc, qdrant_service, langchain_service, content_generator, caller,
           attempt, retry_delay, outcomes, sleeps, raised, verifyRuns,
           req, similar_articles, rag_sources_count, searchCall, llmContext,
           article_content, validation_result, metaReply, extracted_metadata,
           metadata, article_sections, calls, replies, stages, response, httpError,
           llm, frame, submitted, received, returned,
           collection, initCalls, health_status, healthChecks, healthResponse >>

guardVars == << attempt, retry_delay, outcomes, sleeps, raised, verifyRuns, caller >>
\* the locals of generate_article written after the generation call returned
postVars == << validation_result, metaReply, extracted_metadata, metadata,
              article_sections >>
reqVars == << req, similar_articles, rag_sources_count, searchCall, llmContext,
              article_content, postVars, calls, replies, stages, response, httpError >>
svcVars == << qdrant_service, langchain_service, content_generator >>
taskVars == << frame, submitted, received, returned >>
adminVars == << collection, initCalls, health_status, healthChecks, healthResponse >>

(***************************************************************************)
(* Program constants                                                       *)
(***************************************************************************)
QDRANT_MAX_RETRIES == 5
QDRANT_INITIAL_RETRY_DELAY == 2
\* settings.rag_top_k (default)
rag_top_k == 5
\* settings.rag_similarity_threshold (default 0.7), in hundredths
rag_similarity_threshold == 70
\* GeneratedArticle.content: Field(..., min_length=100)
CONTENT_MIN_LENGTH == 100

(***************************************************************************)
(* Optional values are sequences of length 0 (None) or 1.                  *)
(***************************************************************************)
None == << >>
Some(x) == << x >>

(***************************************************************************)
(* Text: a Python str is a sequence of one-character strings.              *)
(***************************************************************************)
Rep(c, n) == [i \in 1..n |-> c]
Range(q) == {q[i] : i \in DOMAIN q}

RECURSIVE Flatten(_)
Flatten(ss) == IF ss = << >> THEN << >> ELSE Head(ss) \o Flatten(Tail(ss))

IsWs(c) == c \in {" ", "\n", "\t"}

\* mutant of Strip: nothing is dropped
StripNone(t) == t

\* str.strip(): drop leading and trailing whitespace
Strip(t) ==
    LET keep == {i \in DOMAIN t : ~IsWs(t[i])}
    IN  IF keep = {} THEN << >>
        ELSE LET lo == CHOOSE i \in keep : \A j \in keep : i <= j
                 hi == CHOOSE i \in keep : \A j \in keep : j <= i
             IN  SubSeq(t, lo, hi)

\* t[:n]
Prefix(t, n) == SubSeq(t, 1, IF Len(t) < n THEN Len(t) ELSE n)

\* t.replace(c, "")
Remove(t, c) == SelectSeq(t, LAMBDA x : x # c)

\* mutant of WordCount: the text is split at single spaces only
WordCountSpaces(t) == Cardinality({i \in DOMAIN t : t[i] = " "}) + 1

\* len(t.split()): the number of maximal runs of non-whitespace characters
WordCount(t) ==
    Cardinality({i \in DOMAIN t : ~IsWs(t[i]) /\ (i = 1 \/ IsWs(t[i - 1]))})

\* first index >= i holding a newline, or Len(t) + 1
LineEnd(t, i) ==
    LET nl == {j \in i..Len(t) : t[j] = "\n"}
    IN  IF nl = {} THEN Len(t) + 1 ELSE CHOOSE j \in nl : \A k \in nl : j <= k

\* mutant of AtLineStart: '^' holds anywhere
AtAnyPosition(t, i) == TRUE

\* '^' with re.MULTILINE, and the start of a line of content.split('\n')
AtLineStart(t, i) == i = 1 \/ t[i - 1] = "\n"

UNTITLED == << "U","n","t","i","t","l","e","d"," ","A","r","t","i","c","l","e" >>

\* LangChainService.extract_title_from_content
extract_title_from_content(content) ==
    LET hs == {i \in DOMAIN content :
                  /\ AtLineStart(content, i)
                  /\ content[i] = "#"
                  /\ i + 1 <= Len(content)
                  /\ content[i + 1] = " "}
    IN  IF hs = {} THEN UNTITLED
        ELSE LET i == CHOOSE h \in hs : \A k \in hs : h <= k
             IN  Strip(SubSeq(content, i + 2, LineEnd(content, i) - 1))

WORDS_PER_MINUTE == 200
MIN_READING_TIME_MINUTES == 1

\* mutant of RoundDiv: a tie is rounded up
RoundDivHalfUp(n, d) == (2 * n + d) \div (2 * d)

\* Python round() of n / d: round half to even
RoundDiv(n, d) ==
    LET q == n \div d
        r == n % d
    IN  IF 2 * r < d THEN q
        ELSE IF 2 * r > d THEN q + 1
        ELSE IF q % 2 = 0 THEN q ELSE q + 1

\* LangChainService.calculate_reading_time
calculate_reading_time(text) ==
    LET rt == RoundDiv(WordCount(text), WORDS_PER_MINUTE)
    IN  IF rt < MIN_READING_TIME_MINUTES THEN MIN_READING_TIME_MINUTES ELSE rt

(***************************************************************************)
(* Heading patterns (core/constants.py), matched as Python's re does with  *)
(* re.MULTILINE: '^' holds at a line start, '\s+' is greedy and may run    *)
(* over newlines, '.' is any character but a newline.                      *)
(***************************************************************************)
\* first index >= j holding a non-whitespace character, or Len(t) + 1
WsEnd(t, j) ==
    LET nw == {k \in j..Len(t) : ~IsWs(t[k])}
    IN  IF nw = {} THEN Len(t) + 1 ELSE CHOOSE k \in nw : \A m \in nw : k <= m

\* where '.+' can start after '\s+' has taken at least one character from j
GroupStarts(t, j) ==
    {p \in (j + 1)..WsEnd(t, j) : p <= Len(t) /\ t[p] # "\n"}

\* '^' '#'*n '\s+' '(.+)' '$' tried at index i: the start of the group, or 0
HeadingAt(t, i, n) ==
    IF /\ i + n - 1 <= Len(t)
       /\ AtLineStart(t, i)
       /\ \A k \in i..(i + n - 1) : t[k] = "#"
       /\ GroupStarts(t, i + n) # {}
    THEN CHOOSE p \in GroupStarts(t, i + n) : \A q \in GroupStarts(t, i + n) : q <= p
    ELSE 0

\* H1_PATTERN = r'^#\s+.+$'
H1At(t, i) == HeadingAt(t, i, 1)
\* H2_PATTERN = r'^##\s+(.+)$'
H2At(t, i) == HeadingAt(t, i, 2)
\* H2_H3_PATTERN = r'^#{2,3}\s+.+$'  ('#{2,3}' is greedy: three first)
H2H3At(t, i) == IF HeadingAt(t, i, 3) # 0 THEN HeadingAt(t, i, 3) ELSE HeadingAt(t, i, 2)

\* re.search(H1_PATTERN, content, re.MULTILINE) is not None
HasH1(t) == \E i \in DOMAIN t : H1At(t, i) # 0

\* len(re.findall(H2_H3_PATTERN, content, re.MULTILINE)): matches do not overlap
RECURSIVE CountH2H3(_, _)
CountH2H3(t, from) ==
    LET ms == {i \in from..Len(t) : H2H3At(t, i) # 0}
    IN  IF ms = {} THEN 0
        ELSE LET i == CHOOSE m \in ms : \A k \in ms : m <= k
             IN  1 + CountH2H3(t, LineEnd(t, H2H3At(t, i)))

\* re.split(H2_PATTERN, content, flags=re.MULTILINE)
RECURSIVE SplitH2(_, _)
SplitH2(t, from) ==
    LET ms == {i \in from..Len(t) : H2At(t, i) # 0}
    IN  IF ms = {} THEN << SubSeq(t, from, Len(t)) >>
        ELSE LET i == CHOOSE m \in ms : \A k \in ms : m <= k
                 g == H2At(t, i)
                 e == LineEnd(t, g)
             IN  << SubSeq(t, from, i - 1), SubSeq(t, g, e - 1) >> \o SplitH2(t, e)

\* ContentGeneratorService._extract_sections: None, or the non-empty list
_extract_sections(content) ==
    LET parts == SplitH2(content, 1)
        n == (Len(parts) - 1) \div 2
        sections == [k \in 1..n |-> [title |-> Strip(parts[2 * k]),
                                     content |-> Strip(parts[2 * k + 1])]]
    IN  IF sections # << >> THEN Some(sections) ELSE None

(***************************************************************************)
(* ContentGeneratorService._validate_article_content                       *)
(***************************************************************************)
\* settings.min_article_length (default)
min_article_length == 800
MIN_HEADING_COUNT == 3

UPPER == << "A","B","C","D","E","F","G","H","I","J","K","L","M",
            "N","O","P","Q","R","S","T","U","V","W","X","Y","Z" >>
LOWER == << "a","b","c","d","e","f","g","h","i","j","k","l","m",
            "n","o","p","q","r","s","t","u","v","w","x","y","z" >>

\* str.lower()
LowerOf == [c \in Range(UPPER) |-> LOWER[CHOOSE k \in DOMAIN UPPER : UPPER[k] = c]]
LowerChar(c) == IF c \in DOMAIN LowerOf THEN LowerOf[c] ELSE c
Lower(t) == [i \in DOMAIN t |-> LowerChar(t[i])]

\* needle in t
Contains(t, needle) ==
    \E i \in 1..(Len(t) - Len(needle) + 1) :
        \A k \in DOMAIN needle : t[i + k - 1] = needle[k]

PLACEHOLDER_KEYWORDS ==
    << << "[","I","n","s","e","r","t" >>,
       << "[","A","d","d" >>,
       << "[","T","O","D","O" >>,
       << "l","o","r","e","m"," ","i","p","s","u","m" >> >>

\* mutant of PlaceholderIn: the comparison is case-sensitive
PlaceholderInExact(placeholder, content) == Contains(content, placeholder)

\* "placeholder.lower() in content.lower()"
PlaceholderIn(placeholder, content) ==
    LET lowered == Lower(content)
        needle == Lower(placeholder)
    IN  Contains(lowered, needle)

_validate_article_content(content) ==
    LET word_count == WordCount(content)
        i1 == IF word_count < min_article_length THEN << "Article too short" >> ELSE << >>
        i2 == IF ~HasH1(content) THEN << "No H1 title found" >> ELSE << >>
        hit == [k \in DOMAIN PLACEHOLDER_KEYWORDS |->
                   PlaceholderIn(PLACEHOLDER_KEYWORDS[k], content)]
        i3 == Flatten([k \in DOMAIN PLACEHOLDER_KEYWORDS |->
                   IF hit[k] THEN << "Placeholder text detected" >> ELSE << >>])
        i4 == IF CountH2H3(content, 1) < MIN_HEADING_COUNT
              THEN << "Article may lack proper structure (few headings)" >> ELSE << >>
        issues == i1 \o i2 \o i3 \o i4
    IN  [valid |-> Len(issues) = 0, issues |-> issues, word_count |-> word_count]

(***************************************************************************)
(* Metadata extraction                                                     *)
(***************************************************************************)
META_DESCRIPTION_MAX_LENGTH == 160
META_DESCRIPTION_TRUNCATE_LENGTH == 157
META_DESCRIPTION_FALLBACK_LENGTH == 150
\* settings.max_keywords (default)
max_keywords == 10
ELLIPSIS == << ".", ".", "." >>

\* What the metadata LLM call can come back with.  kind: "raise" (ainvoke
\* raised), "text" (the reply is not JSON), "array" (JSON, but not an object),
\* "object".  For an object: md is the optional "meta_description" string, kwt
\* tells what "keywords" holds ("absent", "list", "null") and kw is the list.
LlmReply(kind, md, kwt, kw) == [kind |-> kind, md |-> md, kwt |-> kwt, kw |-> kw]

\* LangChainService.extract_metadata: the parsed reply, or defaults on any failure
extract_metadata(reply, content) ==
    IF reply.kind \in {"raise", "text"}
    THEN LlmReply("object", Some(Prefix(content, 150) \o ELLIPSIS), "list", << >>)
    ELSE reply

\* the initial extracted_metadata of _extract_article_metadata
DefaultExtracted == LlmReply("object", None, "list", << >>)

\* extracted_metadata.get("keywords", []) raises AttributeError on a non-dict,
\* and list + None raises TypeError
KeywordsRaise(extracted) ==
    IF extracted.kind # "object" THEN Some("AttributeError")
    ELSE IF extracted.kwt = "null" THEN Some("TypeError")
    ELSE None

\* A keyword list is kept as the bag of its elements: the order of
\* list(set(...)) is that of a hash set and is not modelled, how often an
\* element occurs is.
ListToBag(q) == [x \in Range(q) |-> Cardinality({i \in DOMAIN q : q[i] = x})]

\* the sub-lists of n elements of a list (all of it when it is shorter)
Slices(bag, n) ==
    IF BagCardinality(bag) <= n THEN {bag}
    ELSE {b \in SubBag(bag) : BagCardinality(b) = n}

\* mutant of Dedup: the list is not turned into a set
DedupNone(bag) == bag

\* set(...): every element once
Dedup(bag) == SetToBag(BagToSet(bag))

\* list(set(a + b))[:max_keywords]: the set keeps no order, so any max_keywords
\* of the distinct elements can be the ones kept
CombinedKeywords(request_keywords, extracted) ==
    LET all == Dedup(ListToBag(request_keywords \o
                       (IF extracted.kwt = "list" THEN extracted.kw ELSE << >>)))
    IN  Slices(all, max_keywords)

\* metadata.keywords[:5] if metadata.keywords else None: the first five of a
\* list whose order is that of a set
RelatedTopics(keywords) ==
    IF keywords = EmptyBag THEN {None}
    ELSE {Some(b) : b \in Slices(keywords, 5)}

\* the fallback of _extract_article_metadata:
\* content[:150].replace("#", "").strip() + "..."
FallbackDescription(content) ==
    Strip(Remove(Prefix(content, META_DESCRIPTION_FALLBACK_LENGTH), "#")) \o ELLIPSIS

\* the meta description before the length check: the extracted one unless it
\* is missing or empty ("if not meta_description")
CandidateDescription(extracted, content) ==
    IF extracted.md # None /\ extracted.md[1] # << >>
    THEN extracted.md[1]
    ELSE FallbackDescription(content)

\* mutant of Truncate: the description is kept whatever its length
TruncateNever(md) == md

\* "if len(meta_description) > META_DESCRIPTION_MAX_LENGTH: ..."
Truncate(md) ==
    IF Len(md) > META_DESCRIPTION_MAX_LENGTH
    THEN Prefix(md, META_DESCRIPTION_TRUNCATE_LENGTH) \o ELLIPSIS
    ELSE md

\* the meta description of _extract_article_metadata
MetaDescription(extracted, content) == Truncate(CandidateDescription(extracted, content))

\* ArticleMetadata(...) as built by _extract_article_metadata
ArticleMetadata(content, request, count, extracted, keywords) ==
    [ title |-> extract_title_from_content(content),
      meta_description |-> MetaDescription(extracted, content),
      keywords |-> keywords,
      reading_time_minutes |-> calculate_reading_time(content),
      word_count |-> WordCount(content),
      industry |-> request.industry,
      rag_sources_count |-> count ]

\* pydantic validation of ArticleMetadata
MetadataValid(m) ==
    /\ Len(m.meta_description) <= 160
    /\ m.reading_time_minutes >= 1
    /\ m.word_count >= 0
    /\ m.rag_sources_count >= 0

\* pydantic validation of GeneratedArticle: content has min_length=100
ArticleValid(content) == Len(content) >= CONTENT_MIN_LENGTH

(***************************************************************************)
(* Envelopes (ArticleGenerationResponse)                                   *)
(***************************************************************************)
\* mutant of ErrorMessage: the bare str(e), without the prefix
ErrorMessageBare(e) == << e >>

\* f"Failed to generate article: {str(e)}", kept as its two parts
ErrorMessage(e) == << "Failed to generate article: ", e >>

SuccessResponse(article, request_id) ==
    [success |-> TRUE, article |-> Some(article), error |-> None, request_id |-> request_id]

\* mutant of FailureResponse: the request id is not passed on
FailureResponseNoId(e, request_id) ==
    [success |-> FALSE, article |-> None, error |-> Some(ErrorMessage(e)),
     request_id |-> None]

FailureResponse(e, request_id) ==
    [success |-> FALSE, article |-> None, error |-> Some(ErrorMessage(e)),
     request_id |-> request_id]

(***************************************************************************)
(* Retrieval                                                               *)
(***************************************************************************)
\* mutant of FilterIndustry: the industry is passed on also when "general"
FilterIndustryAlways(industry) == Some(industry)

\* request.industry.value if request.industry.value != "general" else None
FilterIndustry(industry) == IF industry # "general" THEN Some(industry) ELSE None

\* the query_filter built by search_similar_articles ("if filter_industry:")
QueryFilter(filter_industry) ==
    IF filter_industry # None /\ filter_industry[1] # ""
    THEN Some([key |-> "industry", value |-> filter_industry[1]])
    ELSE None

\* mutant of SearchArgs: min_score is not passed on
SearchArgsNoThreshold(top_k, min_score, filter_industry) ==
    [limit |-> top_k, score_threshold |-> 0,
     query_filter |-> QueryFilter(filter_industry)]

\* the arguments search_similar_articles passes to client.search
SearchArgs(top_k, min_score, filter_industry) ==
    [limit |-> top_k, score_threshold |-> min_score,
     query_filter |-> QueryFilter(filter_industry)]

\* the points of `S` in descending score order, at most k of them
RECURSIVE TopK(_, _)
TopK(S, k) ==
    IF k = 0 \/ S = {} THEN << >>
    ELSE LET m == CHOOSE p \in S : \A q \in S : q.score <= p.score
         IN  << m >> \o TopK(S \ {m}, k - 1)

\* QdrantClient.search on a collection holding `store`: the points that pass
\* the filter and the score threshold, best first, at most `limit`
ClientSearch(store, args) ==
    LET pass == {p \in store :
                    /\ p.score >= args.score_threshold
                    /\ \/ args.query_filter = None
                       \/ p.industry = args.query_filter[1].value}
    IN  TopK(pass, args.limit)

\* "Format results": one dict per scored point, in the order returned
FormatResults(search_results) ==
    [i \in DOMAIN search_results |->
        [id |-> search_results[i].id, score |-> search_results[i].score,
         industry |-> search_results[i].industry,
         content |-> search_results[i].content]]

\* core/constants.py
CONTENT_PREVIEW_LENGTH == 500

\* mutant of ContentPreview: the whole content is quoted
ContentPreviewWhole(content) == content

\* content_preview = article['content'][:CONTENT_PREVIEW_LENGTH]
ContentPreview(content) == Prefix(content, CONTENT_PREVIEW_LENGTH)

\* LangChainService._format_rag_context: "" (no entry) for an empty list,
\* otherwise one "Reference i" entry per article, in the order of the list
_format_rag_context(articles) ==
    IF articles = << >>
    THEN << >>
    ELSE [i \in DOMAIN articles |->
            [ref |-> i, id |-> articles[i].id, industry |-> articles[i].industry,
             preview |-> ContentPreview(articles[i].content)]]

\* the rag_context LangChainService.generate_article puts in the prompt
RagContext(request, articles) ==
    IF request.use_rag /\ articles # << >> THEN _format_rag_context(articles) ELSE << >>

\* rag_sources_count = len(similar_articles)
RagSourcesCount(articles) == Len(articles)

(***************************************************************************)
(* Inputs                                                                  *)
(***************************************************************************)
Industries == {"general", "technology", "finance"}
RequestKeywords == { << >>, << "ai" >> }
RequestIds == { None, Some("req-1") }

Requests ==
    [use_rag : BOOLEAN, industry : Industries, generate_seo_metadata : BOOLEAN,
     keywords : RequestKeywords, request_id : RequestIds]

\* payload['content'] of the documents: the lengths lie on both sides of
\* CONTENT_PREVIEW_LENGTH, and the characters alternate so that a prefix
\* differs from every other slice of the same length
ContentLengthTable == << 501, 3, 0, 500, 2, 499, 1, 5, 4 >>
PayloadContent(id) ==
    [i \in 1..ContentLengthTable[id] |-> IF i % 2 = 1 THEN "x" ELSE "y"]

Point(id, score, industry) ==
    [id |-> id, score |-> score, industry |-> industry, content |-> PayloadContent(id)]

\* the documents a collection can hold, with their similarity (in hundredths)
\* to the query of the request
ScoreTable == << 95, 90, 85, 80, 75, 72, 65, 99, 50 >>
IndustryTable == << "technology", "finance", "general", "technology", "finance",
                    "technology", "technology", "finance", "general" >>
MaxPoints == 7
Points == { Point(i, ScoreTable[i], IndustryTable[i]) : i \in 1..MaxPoints }

\* str(e) of the exception of a failed generation call
GenErrors == {"", "timeout"}

NL == << "\n" >>
\* n times the word "abc" and a space
Words(n) == [i \in 1..(4 * n) |-> << "a", "b", "c", " " >>[((i - 1) % 4) + 1]]
Heading(n, c) == Rep("#", n) \o << " ", c >>

TextEmpty == << >>
TextShort == Flatten(<< Heading(1, "T"), NL, Heading(2, "I"), NL, Words(1) >>)
TextNoH1 == Words(26)
TextGood ==
    Flatten(<< Heading(1, "T"), NL, Words(4), NL,
               Heading(2, "I"), NL, Words(6), NL,
               Heading(2, "C"), NL, Words(6), NL,
               Heading(3, "s"), NL, Words(4) >>)

\* an article that passes every check of _validate_article_content
TextValid ==
    Flatten(<< Heading(1, "T"), NL, Words(400), NL,
               Heading(2, "I"), NL, Words(200), NL,
               Heading(2, "C"), NL, Words(200), NL,
               Heading(3, "s"), NL, Words(10) >>)

\* what the generation call can return; the long article is tried on the
\* requests without retrieval only, which keeps the state space small
Texts(r) ==
    {TextEmpty, TextShort, TextNoH1, TextGood} \cup
    (IF r.use_rag THEN {} ELSE {TextValid})

ShortSummary == << "s", "u", "m" >>
LongSummary == Rep("x", 170)

MetaReplies ==
    { LlmReply("raise", None, "absent", << >>),
      LlmReply("text", None, "absent", << >>),
      LlmReply("array", None, "absent", << >>),
      LlmReply("object", Some(ShortSummary), "list", << "ml" >>),
      LlmReply("object", Some(LongSummary), "list", << "ai", "ml" >>),
      LlmReply("object", None, "absent", << >>),
      LlmReply("object", Some(ShortSummary), "null", << >>) }

(***************************************************************************)
(* The shared LLM client and the coroutine frames                          *)
(***************************************************************************)
\* core/config.py defaults; temperatures are in hundredths
llm_model == "claude-sonnet-4-5-20250929"
llm_temperature == 70
llm_max_tokens == 4096

\* the settings a ChatOpenAI client is built with
ChatOpenAI(model, temperature, max_tokens) ==
    [model |-> model, temperature |-> temperature, max_tokens |-> max_tokens]

\* LangChainService.__init__: self.llm
ConfiguredLlm == ChatOpenAI(llm_model, llm_temperature, llm_max_tokens)

\* the clients whose requests are served at the same time
Tasks == {"a", "b"}

\* the locals of a generate_article call that has not started
NoFrame ==
    [pc |-> "idle", request |-> None, similar_articles |-> << >>,
     rag_sources_count |-> 0, rag_context |-> << >>, llm_call |-> None,
     article_content |-> None, response |-> None]

\* no request is being served
NoTasks ==
    /\ frame = [t \in Tasks |-> NoFrame]
    /\ submitted = [t \in Tasks |-> None]
    /\ received = [t \in Tasks |-> << >>]
    /\ returned = [t \in Tasks |-> None]

\* no collection yet, no health check made
NoAdmin ==
    /\ collection = None
    /\ initCalls = << >>
    /\ health_status = None
    /\ healthChecks = << >>
    /\ healthResponse = None

(***************************************************************************)
(* State machine                                                           *)
(***************************************************************************)
Init ==
    /\ pc = "start"
    /\ qdrant_service = "None"
    /\ langchain_service = "None"
    /\ content_generator = "None"
    /\ caller = "lifespan"
    /\ attempt = 0
    /\ retry_delay = 0
    /\ outcomes = << >>
    /\ sleeps = << >>
    /\ raised = 0
    /\ verifyRuns = 0
    /\ req = None
    /\ similar_articles = << >>
    /\ rag_sources_count = 0
    /\ searchCall = None
    /\ llmContext = << >>
    /\ article_content = None
    /\ validation_result = None
    /\ metaReply = None
    /\ extracted_metadata = None
    /\ metadata = None
    /\ article_sections = None
    /\ calls = << >>
    /\ replies = << >>
    /\ stages = << >>
    /\ response = None
    /\ httpError = FALSE
    /\ llm = None
    /\ NoTasks
    /\ NoAdmin

\* mutant of NeedsConstruction: no singleton check
NeedsConstructionAlways(svc) == TRUE

\* get_qdrant_service: "if _qdrant_service is None"
NeedsConstruction(svc) == svc = "None"

\* "if attempt < QDRANT_MAX_RETRIES": sleep and try again, else re-raise
MayRetry(n) == n < QDRANT_MAX_RETRIES

\* mutant of NextRetryDelay: linear instead of exponential backoff
NextRetryDelayLinear(d) == d + QDRANT_INITIAL_RETRY_DELAY

\* "retry_delay *= 2"
NextRetryDelay(d) == d * 2

\* mutant of RaisedError: the first attempt's exception is kept and raised
RaisedFirstError(n) == 1

\* the bare "raise" in the except block re-raises the exception of the current
\* attempt; exceptions are named by the attempt that raised them
RaisedError(n) == n

\* QdrantService.__init__ up to the call of _verify_connection_with_retry
StartGuard(who) ==
    /\ pc' = "verify"
    /\ caller' = who
    /\ attempt' = 1
    /\ retry_delay' = QDRANT_INITIAL_RETRY_DELAY
    /\ outcomes' = << >>
    /\ sleeps' = << >>
    /\ raised' = 0
    /\ verifyRuns' = verifyRuns + 1

\* mutant of UsesRetrieval: retrieval whatever the flag
UsesRetrievalAlways(r) == TRUE

\* "if request.use_rag:"
UsesRetrieval(r) == r.use_rag

\* generate_article from its entry to its first external call
BeginGenerate(r) ==
    /\ req' = Some(r)
    /\ response' = None
    /\ httpError' = FALSE
    /\ article_content' = None
    /\ validation_result' = None
    /\ metaReply' = None
    /\ extracted_metadata' = None
    /\ metadata' = None
    /\ article_sections' = None
    /\ searchCall' = None
    /\ similar_articles' = << >>
    /\ rag_sources_count' = 0
    /\ replies' = << >>
    /\ IF UsesRetrieval(r)
       THEN /\ pc' = "embed"
            /\ calls' = << "embed" >>
            /\ stages' = << "Retrieving" >>
            /\ llmContext' = << >>
       ELSE /\ pc' = "generate"
            /\ calls' = << "generate" >>
            /\ stages' = << "Generating" >>
            /\ llmContext' = RagContext(r, << >>)

\* main.lifespan: get_qdrant_service()
LifespanQdrant ==
    /\ pc = "start"
    /\ IF NeedsConstruction(qdrant_service)
       THEN StartGuard("lifespan")
       ELSE /\ pc' = "lifespan_lc"
            /\ UNCHANGED guardVars
    /\ UNCHANGED << svcVars, reqVars >>
    /\ UNCHANGED << llm, taskVars, adminVars >>

\* one iteration of the loop of _verify_connection_with_retry: the call of
\* client.get_collections() and what follows it
VerifyAttempt ==
    /\ pc = "verify"
    /\ \E ok \in BOOLEAN :
        /\ outcomes' = Append(outcomes, IF ok THEN "ok" ELSE "fail")
        /\ UNCHANGED << caller, verifyRuns, langchain_service >>
        /\ IF ok
           THEN \* return: QdrantService() is built and stored in the singleton
                /\ qdrant_service' = "QdrantService"
                /\ UNCHANGED << attempt, retry_delay, sleeps, raised >>
                /\ IF caller = "lifespan"
                   THEN /\ pc' = "lifespan_lc"
                        /\ UNCHANGED << content_generator, reqVars >>
                   ELSE /\ content_generator' = "ContentGeneratorService"
                        /\ BeginGenerate(req[1])
           ELSE IF MayRetry(attempt)
           THEN \* time.sleep(retry_delay); retry_delay *= 2
                /\ sleeps' = Append(sleeps, retry_delay)
                /\ retry_delay' = NextRetryDelay(retry_delay)
                /\ attempt' = attempt + 1
                /\ pc' = "verify"
                /\ UNCHANGED << raised, svcVars, reqVars >>
           ELSE \* raise: the constructor fails, the singleton stays None
                /\ raised' = RaisedError(attempt)
                /\ UNCHANGED << attempt, retry_delay, sleeps, svcVars >>
                /\ IF caller = "lifespan"
                   THEN /\ pc' = "crashed"
                        /\ UNCHANGED reqVars
                   ELSE \* the router answers HTTP 500
                        /\ pc' = "idle"
                        /\ httpError' = TRUE
                        /\ UNCHANGED << req, similar_articles, rag_sources_count,
                                        searchCall, llmContext, article_content,
                                        postVars, calls, replies, stages, response >>
    /\ UNCHANGED << llm, taskVars, adminVars >>

\* main.lifespan: get_langchain_service(); LangChainService.__init__ raises
\* when OPENAI_API_KEY is not set
LifespanLangChain ==
    /\ pc = "lifespan_lc"
    /\ \E key \in BOOLEAN :
        IF key
        THEN /\ langchain_service' = "LangChainService"
             /\ llm' = Some(ConfiguredLlm)
             /\ pc' = "idle"
        ELSE /\ pc' = "crashed"
             /\ UNCHANGED << langchain_service, llm >>
    /\ UNCHANGED << qdrant_service, content_generator, guardVars, reqVars >>
    /\ UNCHANGED << taskVars, adminVars >>

\* routers/article.generate_article: get_content_generator(), then
\* ContentGeneratorService.generate_article up to its first external call
Request ==
    /\ pc = "idle"
    /\ \E r \in Requests :
        IF content_generator = "None" /\ NeedsConstruction(qdrant_service)
        THEN \* ContentGeneratorService.__init__ builds the QdrantService
             /\ StartGuard("request")
             /\ req' = Some(r)
             /\ UNCHANGED << svcVars, similar_articles, rag_sources_count, searchCall,
                             llmContext, article_content, postVars, calls, replies,
                             stages, response, httpError >>
        ELSE /\ content_generator' = "ContentGeneratorService"
             /\ BeginGenerate(r)
             /\ UNCHANGED << qdrant_service, langchain_service, guardVars >>
    /\ UNCHANGED << llm, taskVars, adminVars >>

\* mutant of GeneratorInput: the best match is dropped
GeneratorInputTail(articles) == IF articles = << >> THEN << >> ELSE Tail(articles)

\* what generate_article hands to LangChainService.generate_article
GeneratorInput(articles) == articles

\* generate_article from the return of _retrieve_similar_articles to the
\* generation call
ToGenerating(articles) ==
    /\ similar_articles' = articles
    /\ rag_sources_count' = RagSourcesCount(articles)
    /\ llmContext' = RagContext(req[1], GeneratorInput(articles))
    /\ pc' = "generate"
    /\ calls' = Append(calls, "generate")
    /\ stages' = Append(stages, "Generating")

\* _retrieve_similar_articles: the embedding call returns or raises
EmbedReply ==
    /\ pc = "embed"
    /\ \E ok \in BOOLEAN :
        /\ replies' = Append(replies, IF ok THEN "ok" ELSE "raise")
        /\ IF ok
           THEN /\ pc' = "search"
                /\ calls' = Append(calls, "search")
                /\ searchCall' = Some(SearchArgs(rag_top_k, rag_similarity_threshold,
                                                 FilterIndustry(req[1].industry)))
                /\ UNCHANGED << similar_articles, rag_sources_count, llmContext,
                                stages >>
           ELSE \* except Exception: return []
                /\ ToGenerating(<< >>)
                /\ UNCHANGED searchCall
    /\ UNCHANGED << svcVars, guardVars, req, article_content, postVars, response,
                    httpError >>
    /\ UNCHANGED << llm, taskVars, adminVars >>

\* search_similar_articles: client.search returns or raises
SearchReply ==
    /\ pc = "search"
    /\ \E store \in SUBSET Points, ok \in BOOLEAN :
        /\ replies' = Append(replies, IF ok THEN "ok" ELSE "raise")
        /\ ToGenerating(IF ok THEN FormatResults(ClientSearch(store, searchCall[1]))
                        ELSE << >>)
    /\ UNCHANGED << svcVars, guardVars, req, searchCall, article_content, postVars,
                    response, httpError >>
    /\ UNCHANGED << llm, taskVars, adminVars >>

\* the except branch of generate_article
Fail(e, stg) ==
    /\ response' = Some(FailureResponse(e, req[1].request_id))
    /\ stages' = stg \o << "Done" >>
    /\ pc' = "done"

\* _extract_article_metadata after the metadata call, the GeneratedArticle and
\* the envelope; stg holds the stages entered so far
Finish(content, extracted, stg) ==
    /\ extracted_metadata' = Some(extracted)
    /\ IF KeywordsRaise(extracted) # None
       THEN /\ Fail(KeywordsRaise(extracted)[1], stg)
            /\ metadata' = None
            /\ article_sections' = None
       ELSE \E keywords \in CombinedKeywords(req[1].keywords, extracted) :
           LET md == ArticleMetadata(content, req[1], rag_sources_count,
                                     extracted, keywords)
           IN  IF ~MetadataValid(md)
               THEN /\ Fail("ValidationError", stg)
                    /\ metadata' = None
                    /\ article_sections' = None
               ELSE /\ metadata' = Some(md)
                    /\ article_sections' = Some(_extract_sections(content))
                    /\ IF ~ArticleValid(content)
                       THEN Fail("ValidationError", stg \o << "Segmenting" >>)
                       ELSE \E related \in RelatedTopics(keywords) :
                            /\ response' = Some(SuccessResponse(
                                   [content |-> content, metadata |-> md,
                                    sections |-> _extract_sections(content),
                                    related_topics |-> related],
                                   req[1].request_id))
                            /\ stages' = stg \o << "Segmenting", "Done" >>
                            /\ pc' = "done"

\* mutant of WantsSeoMetadata: the metadata call is issued whatever the flag
WantsSeoMetadataAlways(r) == TRUE

\* "if request.generate_seo_metadata:"
WantsSeoMetadata(r) == r.generate_seo_metadata

\* mutant of ProceedsAfterValidation: an invalid article stops the request
ProceedsOnlyIfValid(validation) == validation.valid

\* "if not validation_result['valid']: logger.warning(...)": the issues are
\* logged and generate_article goes on whatever the result
ProceedsAfterValidation(validation) == TRUE

\* the generation call returns text or raises; on text, validation and
\* _extract_article_metadata up to its LLM call (if any)
GenerateReply ==
    /\ pc = "generate"
    /\ \/ \E e \in GenErrors :
            /\ replies' = Append(replies, "raise")
            /\ Fail(e, stages)
            /\ UNCHANGED << article_content, postVars, calls >>
       \/ \E text \in Texts(req[1]) :
            /\ replies' = Append(replies, "ok")
            /\ article_content' = Some(text)
            /\ validation_result' = Some(_validate_article_content(text))
            /\ IF ~ProceedsAfterValidation(_validate_article_content(text))
               THEN /\ Fail("InvalidArticle", stages \o << "Validating" >>)
                    /\ UNCHANGED << calls, metaReply, extracted_metadata, metadata,
                                    article_sections >>
               ELSE IF WantsSeoMetadata(req[1])
               THEN /\ pc' = "metadata"
                    /\ calls' = Append(calls, "metadata")
                    /\ stages' = stages \o << "Validating", "ExtractingMetadata" >>
                    /\ UNCHANGED << response, metaReply, extracted_metadata, metadata,
                                    article_sections >>
               ELSE /\ Finish(text, DefaultExtracted,
                              stages \o << "Validating", "ExtractingMetadata" >>)
                    /\ UNCHANGED << calls, metaReply >>
    /\ UNCHANGED << svcVars, guardVars, req, similar_articles, rag_sources_count,
                    searchCall, llmContext, httpError >>
    /\ UNCHANGED << llm, taskVars, adminVars >>

\* LangChainService.extract_metadata: the metadata call returns or raises
MetadataReply ==
    /\ pc = "metadata"
    /\ \E reply \in MetaReplies :
        /\ replies' = Append(replies, IF reply.kind = "raise" THEN "raise" ELSE "ok")
        /\ metaReply' = Some(reply)
        /\ Finish(article_content[1], extract_metadata(reply, article_content[1]), stages)
    /\ UNCHANGED << svcVars, guardVars, req, similar_articles, rag_sources_count,
                    searchCall, llmContext, article_content, validation_result, calls,
                    httpError >>
    /\ UNCHANGED << llm, taskVars, adminVars >>

\* the router returns the envelope
Return ==
    /\ pc = "done"
    /\ pc' = "idle"
    /\ UNCHANGED << svcVars, guardVars, reqVars >>
    /\ UNCHANGED << llm, taskVars, adminVars >>

Next ==
    \/ LifespanQdrant
    \/ VerifyAttempt
    \/ LifespanLangChain
    \/ Request
    \/ EmbedReply
    \/ SearchReply
    \/ GenerateReply
    \/ MetadataReply
    \/ Return

Spec == Init /\ [][Next]_vars

(***************************************************************************)
(* UnitSpec: the helpers of ContentGeneratorService called directly, one   *)
(* after the other, on one text: _validate_article_content, then           *)
(* _extract_article_metadata, then _extract_sections.                      *)
(***************************************************************************)
MaxTextLen == 6
Alphabet == {"#", " ", "\n", "a"}

\* every text of at most MaxTextLen characters over Alphabet
ShortTexts == UNION {[1..n -> Alphabet] : n \in 0..MaxTextLen}

\* n times the word "a" and a space
OneLetterWords(n) == [i \in 1..(2 * n) |-> IF i % 2 = 1 THEN "a" ELSE " "]

TextTwoSections ==
    Flatten(<< Heading(1, "T"), NL, NL, Words(2), NL, NL,
               << "#", "#", " ", "I", "n", "t", "r", "o", " ", "\n", "\n" >>,
               Words(3), NL, Heading(3, "s"), NL, Words(1), NL, NL,
               << "#", "#", " ", "C", "o", "n", "c", "l", "u", "s", "i", "o", "n", "\n" >>,
               Words(2), << "e", "n", "d", ".", "\n" >> >>)
TextTodo == Heading(1, "T") \o NL \o << "[", "T", "O", "D", "O", ":", " ", "x", "]" >>
TextLorem ==
    << "L", "o", "r", "e", "m", " ", "I", "P", "S", "U", "M", " ", "[", "a", "d", "d" >>
\* two '#' within the first 150 characters, one after them
TextHashAt150 == Words(37) \o << "#", "#", "#", " ", "x" >>

SampleTexts ==
    {TextEmpty, TextShort, TextNoH1, TextGood, TextValid, TextTwoSections, TextTodo,
     TextLorem, TextHashAt150,
     OneLetterWords(100), OneLetterWords(150), OneLetterWords(300),
     OneLetterWords(500), OneLetterWords(1000)}

UnitTexts == ShortTexts \cup SampleTexts

ElevenKeywords == << "k1", "k2", "k3", "k4", "k5", "k6", "k7", "k8", "k9", "k10", "k11" >>

\* the requests of UnitSpec: only generate_seo_metadata and keywords matter to
\* the helpers; keyword lists are tried on the sample texts only
UnitRequests(text) ==
    [use_rag : {FALSE}, industry : {"technology"}, generate_seo_metadata : BOOLEAN,
     keywords : IF text \in SampleTexts
                THEN { << >>, << "ai", "seo" >> }
                ELSE { << >> },
     request_id : {None}]

\* the replies of the metadata call in UnitSpec; descriptions and keyword
\* lists are tried on the sample texts only
UnitReplies(text) ==
    { LlmReply("raise", None, "absent", << >>),
      LlmReply("text", None, "absent", << >>),
      LlmReply("object", None, "absent", << >>) } \cup
    (IF text \in SampleTexts
     THEN { LlmReply("object", Some(<< >>), "list", << "ml", "ml" >>),
            LlmReply("object", Some(ShortSummary), "list", << "seo", "ml" >>),
            LlmReply("object", Some(Rep("x", 160)), "list", << >>),
            LlmReply("object", Some(Rep("x", 161)), "list", << "ai" >>),
            LlmReply("object", Some(LongSummary), "list", ElevenKeywords),
            LlmReply("array", None, "absent", << >>) }
     ELSE {})

UnitInit ==
    /\ pc = "unit_validate"
    /\ qdrant_service = "QdrantService"
    /\ langchain_service = "LangChainService"
    /\ content_generator = "ContentGeneratorService"
    /\ caller = "lifespan"
    /\ attempt = 0
    /\ retry_delay = 0
    /\ outcomes = << >>
    /\ sleeps = << >>
    /\ raised = 0
    /\ verifyRuns = 0
    /\ \E text \in UnitTexts :
        /\ article_content = Some(text)
        /\ \E r \in UnitRequests(text) : req = Some(r)
    /\ similar_articles = << >>
    /\ rag_sources_count = 0
    /\ searchCall = None
    /\ llmContext = << >>
    /\ validation_result = None
    /\ metaReply = None
    /\ extracted_metadata = None
    /\ metadata = None
    /\ article_sections = None
    /\ calls = << >>
    /\ replies = << >>
    /\ stages = << >>
    /\ response = None
    /\ httpError = FALSE
    /\ llm = Some(ConfiguredLlm)
    /\ NoTasks
    /\ NoAdmin

unitFrame == << svcVars, guardVars, req, similar_articles, rag_sources_count, searchCall,
               llmContext, article_content, stages, response, httpError,
               llm, taskVars, adminVars >>

\* a call of _validate_article_content
UnitValidate ==
    /\ pc = "unit_validate"
    /\ validation_result' = Some(_validate_article_content(article_content[1]))
    /\ pc' = "unit_metadata"
    /\ UNCHANGED << unitFrame, metaReply, extracted_metadata, metadata, article_sections,
                    calls, replies >>

\* what _extract_article_metadata returns (None: it raises) once
\* extracted_metadata is known
MetadataResults(content, request, count, extracted) ==
    IF KeywordsRaise(extracted) # None THEN {None}
    ELSE { LET md == ArticleMetadata(content, request, count, extracted, keywords)
           IN  IF MetadataValid(md) THEN Some(md) ELSE None :
             keywords \in CombinedKeywords(request.keywords, extracted) }

\* a call of _extract_article_metadata, the metadata LLM call included
UnitExtractMetadata ==
    /\ pc = "unit_metadata"
    /\ \E reply \in IF WantsSeoMetadata(req[1])
                    THEN {Some(m) : m \in UnitReplies(article_content[1])}
                    ELSE {None} :
        LET extracted == IF reply = None THEN DefaultExtracted
                         ELSE extract_metadata(reply[1], article_content[1])
        IN  /\ metaReply' = reply
            /\ calls' = IF reply = None THEN calls ELSE Append(calls, "metadata")
            /\ replies' = IF reply = None THEN replies
                          ELSE Append(replies, IF reply[1].kind = "raise" THEN "raise"
                                               ELSE "ok")
            /\ extracted_metadata' = Some(extracted)
            /\ metadata' \in MetadataResults(article_content[1], req[1],
                                             rag_sources_count, extracted)
    /\ pc' = "unit_sections"
    /\ UNCHANGED << unitFrame, validation_result, article_sections >>

\* a call of _extract_sections
UnitExtractSections ==
    /\ pc = "unit_sections"
    /\ article_sections' = Some(_extract_sections(article_content[1]))
    /\ pc' = "unit_done"
    /\ UNCHANGED << unitFrame, validation_result, metaReply, extracted_metadata,
                    metadata, calls, replies >>

UnitNext ==
    \/ UnitValidate
    \/ UnitExtractMetadata
    \/ UnitExtractSections

UnitSpec == UnitInit /\ [][UnitNext]_vars

(***************************************************************************)
(* ConcSpec: two clients whose generate_article calls run on one event     *)
(* loop.  Each call has its own frame of locals; the services and the      *)
(* client LangChainService.llm are shared.  A step is what a coroutine     *)
(* does between two awaits; the validation result and the log lines, which *)
(* do not enter the envelope, are left out of the frame.                   *)
(***************************************************************************)
mainVars == << pc, svcVars, guardVars, reqVars >>

\* the application after a successful startup, no request served yet
Started ==
    /\ qdrant_service = "QdrantService"
    /\ langchain_service = "LangChainService"
    /\ content_generator = "ContentGeneratorService"
    /\ caller = "lifespan"
    /\ attempt = 0
    /\ retry_delay = 0
    /\ outcomes = << >>
    /\ sleeps = << >>
    /\ raised = 0
    /\ verifyRuns = 0
    /\ req = None
    /\ similar_articles = << >>
    /\ rag_sources_count = 0
    /\ searchCall = None
    /\ llmContext = << >>
    /\ article_content = None
    /\ validation_result = None
    /\ metaReply = None
    /\ extracted_metadata = None
    /\ metadata = None
    /\ article_sections = None
    /\ calls = << >>
    /\ replies = << >>
    /\ stages = << >>
    /\ response = None
    /\ httpError = FALSE

\* request.temperature: absent, or a value of [0, 1] in hundredths
Temperatures == { None, Some(0), Some(100) }
RequestIdOf(t) == IF t = "a" THEN "req-a" ELSE "req-b"

ConcRequests(t) ==
    [use_rag : BOOLEAN, industry : {"general"}, generate_seo_metadata : BOOLEAN,
     keywords : { << >> }, request_id : { Some(RequestIdOf(t)) },
     temperature : Temperatures]

\* what a call came back with: a value, or an exception named by `error`
Returns(value) == [ok |-> TRUE, value |-> value, error |-> ""]
Raises(error, novalue) == [ok |-> FALSE, value |-> novalue, error |-> error]

DocPoint(i) == Point(i, ScoreTable[i], IndustryTable[i])
ConcStores == { {}, {DocPoint(2), DocPoint(5)} }
ConcTexts == { TextShort, TextGood }
ConcMetaReplies ==
    { LlmReply("raise", None, "absent", << >>),
      LlmReply("object", Some(ShortSummary), "list", << "ml" >>) }

\* the replies the call a coroutine is waiting for can come back with
RepliesAt(at) ==
    CASE at = "embed" -> { Returns("vector"), Raises("timeout", "") }
      [] at = "search" -> { Returns(store) : store \in ConcStores }
                             \cup { Raises("timeout", {}) }
      [] at = "generate" -> { Returns(text) : text \in ConcTexts }
                               \cup { Raises("timeout", << >>) }
      [] at = "metadata" -> { IF m.kind = "raise" THEN Raises("timeout", m)
                              ELSE Returns(m) : m \in ConcMetaReplies }

\* mutant of OverridesTemperature: a truthiness test, 0.0 is no override
OverridesTemperatureIfTruthy(r) == r.temperature # None /\ r.temperature[1] # 0

\* "if request.temperature is not None:"
OverridesTemperature(r) == r.temperature # None

\* the client LangChainService.generate_article invokes: self.llm, or a new
\* client built with the temperature of the request
CallLlm(r, shared) ==
    IF OverridesTemperature(r)
    THEN ChatOpenAI(llm_model, r.temperature[1], llm_max_tokens)
    ELSE shared

\* the only element of a one-element set
TheOne(S) == CHOOSE x \in S : TRUE

\* generate_article from the return of _retrieve_similar_articles to the
\* await of llm.ainvoke
EnterGenerate(f, articles, shared) ==
    [f EXCEPT !.similar_articles = articles,
              !.rag_sources_count = RagSourcesCount(articles),
              !.rag_context = RagContext(f.request[1], GeneratorInput(articles)),
              !.llm_call = Some(CallLlm(f.request[1], shared)),
              !.pc = "generate"]

\* generate_article from its entry to its first await
BeginFrame(r, shared) ==
    LET f == [NoFrame EXCEPT !.request = Some(r)]
    IN  IF UsesRetrieval(r) THEN [f EXCEPT !.pc = "embed"]
        ELSE EnterGenerate(f, << >>, shared)

\* the except branch of generate_article
FailFrame(f, e) ==
    [f EXCEPT !.pc = "done",
              !.response = Some(FailureResponse(e, f.request[1].request_id))]

\* _extract_article_metadata after the metadata call, the GeneratedArticle and
\* the envelope (the keyword lists of ConcSpec have at most one element, so
\* their order is fixed)
FinishFrame(f, content, extracted) ==
    IF KeywordsRaise(extracted) # None
    THEN FailFrame(f, KeywordsRaise(extracted)[1])
    ELSE LET r == f.request[1]
             keywords == TheOne(CombinedKeywords(r.keywords, extracted))
             md == ArticleMetadata(content, r, f.rag_sources_count, extracted, keywords)
         IN  IF ~MetadataValid(md) \/ ~ArticleValid(content)
             THEN FailFrame(f, "ValidationError")
             ELSE [f EXCEPT !.pc = "done",
                            !.response = Some(SuccessResponse(
                                [content |-> content, metadata |-> md,
                                 sections |-> _extract_sections(content),
                                 related_topics |-> TheOne(RelatedTopics(keywords))],
                                r.request_id))]

\* the coroutine resumes with the reply of the call it awaits and runs to its
\* next await or to its return
StepFrame(f, reply, shared) ==
    LET r == f.request[1]
    IN  CASE f.pc = "embed" ->
                IF reply.ok THEN [f EXCEPT !.pc = "search"]
                ELSE EnterGenerate(f, << >>, shared)
          [] f.pc = "search" ->
                EnterGenerate(f,
                    IF reply.ok
                    THEN FormatResults(ClientSearch(reply.value,
                             SearchArgs(rag_top_k, rag_similarity_threshold,
                                        FilterIndustry(r.industry))))
                    ELSE << >>,
                    shared)
          [] f.pc = "generate" ->
                IF ~reply.ok THEN FailFrame(f, reply.error)
                ELSE IF WantsSeoMetadata(r)
                THEN [f EXCEPT !.pc = "metadata", !.article_content = Some(reply.value)]
                ELSE FinishFrame([f EXCEPT !.article_content = Some(reply.value)],
                                 reply.value, DefaultExtracted)
          [] f.pc = "metadata" ->
                FinishFrame(f, f.article_content[1],
                            extract_metadata(reply.value, f.article_content[1]))

\* the awaits at which the event loop can deliver a cancellation: aembed_query
\* and the two ainvoke calls.  client.search is a blocking call inside a
\* coroutine that never yields, so no cancellation arrives during it.
SuspensionPoints == { "embed", "generate", "metadata" }

\* mutant of ExceptionCatches: CancelledError deriving from Exception
ExceptionCatchesAll(exc) == TRUE

\* "except Exception": asyncio.CancelledError derives from BaseException
ExceptionCatches(exc) == exc # "CancelledError"

Cancellation == Raises("CancelledError", "")

\* CancelledError is raised at the await of the coroutine
CancelFrame(f, shared) ==
    IF ExceptionCatches("CancelledError")
    THEN StepFrame(f, IF f.pc = "metadata"
                      THEN Raises("CancelledError",
                                  LlmReply("raise", None, "absent", << >>))
                      ELSE Cancellation, shared)
    ELSE [f EXCEPT !.pc = "cancelled"]

\* mutant of FrameOf: the locals are kept on the service singleton
FrameOfSingleton(t) == "a"

\* every call of generate_article has its own locals
FrameOf(t) == t

ConcInit ==
    /\ pc = "idle"
    /\ Started
    /\ llm = Some(ConfiguredLlm)
    /\ NoTasks
    /\ NoAdmin

\* routers/article.generate_article: a client's request enters generate_article
ConcRequest(t) ==
    /\ frame[FrameOf(t)].pc = "idle"
    /\ \E r \in ConcRequests(t) :
        /\ frame' = [frame EXCEPT ![FrameOf(t)] = BeginFrame(r, llm[1])]
        /\ submitted' = [submitted EXCEPT ![t] = Some(r)]
    /\ received' = [received EXCEPT ![t] = << >>]
    /\ returned' = [returned EXCEPT ![t] = None]
    /\ UNCHANGED << mainVars, llm, adminVars >>

\* the call the coroutine of t awaits at `at` returns or raises
Resume(t, at) ==
    /\ frame[FrameOf(t)].pc = at
    /\ \E reply \in RepliesAt(at) :
        /\ frame' = [frame EXCEPT ![FrameOf(t)] = StepFrame(@, reply, llm[1])]
        /\ received' = [received EXCEPT ![t] = Append(@, reply)]
    /\ UNCHANGED << mainVars, llm, submitted, returned, adminVars >>

ConcEmbedReply(t) == Resume(t, "embed")
ConcSearchReply(t) == Resume(t, "search")
ConcGenerateReply(t) == Resume(t, "generate")
ConcMetadataReply(t) == Resume(t, "metadata")

\* the request of t is cancelled while its coroutine is suspended
ConcCancel(t) ==
    /\ frame[FrameOf(t)].pc \in SuspensionPoints
    /\ frame' = [frame EXCEPT ![FrameOf(t)] = CancelFrame(@, llm[1])]
    /\ received' = [received EXCEPT ![t] = Append(@, Cancellation)]
    /\ UNCHANGED << mainVars, llm, submitted, returned, adminVars >>

\* generate_article is left: with its envelope, or by the CancelledError
ConcReturn(t) ==
    /\ frame[FrameOf(t)].pc \in { "done", "cancelled" }
    /\ returned' = [returned EXCEPT ![t] = frame[FrameOf(t)].response]
    /\ frame' = [frame EXCEPT ![FrameOf(t)] = NoFrame]
    /\ UNCHANGED << mainVars, llm, submitted, received, adminVars >>

ConcNext ==
    \/ \E t \in Tasks : ConcRequest(t)
    \/ \E t \in Tasks : ConcEmbedReply(t)
    \/ \E t \in Tasks : ConcSearchReply(t)
    \/ \E t \in Tasks : ConcGenerateReply(t)
    \/ \E t \in Tasks : ConcMetadataReply(t)
    \/ \E t \in Tasks : ConcCancel(t)
    \/ \E t \in Tasks : ConcReturn(t)

ConcSpec == ConcInit /\ [][ConcNext]_vars

(***************************************************************************)
(* AdminSpec: the articles collection as initialize_collection manages it, *)
(* and GET /health with ContentGeneratorService.health_check.  The         *)
(* constructors of the services are modelled by their outcome only (the    *)
(* connection guard is the subject of Spec).                               *)
(***************************************************************************)
MaxInitCalls == 2
PayloadIndices == { "industry", "topic" }

\* the client calls of initialize_collection, in the order it makes them
InitSteps == { "get_collections", "delete_collection", "create_collection",
               "index_industry", "index_topic" }

Collection(indices) == Some([indices |-> indices])
InitResult(store, result) == [store |-> store, result |-> result]

\* QdrantService.initialize_collection on `store`, where the client call
\* `fault` (if it is made) raises: the store left behind and the value returned
initialize_collection(store, recreate, fault) ==
    IF fault = "get_collections" THEN InitResult(store, FALSE)
    ELSE IF store # None /\ ~recreate THEN InitResult(store, TRUE)
    ELSE IF store # None /\ fault = "delete_collection" THEN InitResult(store, FALSE)
    ELSE IF fault = "create_collection" THEN InitResult(None, FALSE)
    ELSE IF fault = "index_industry" THEN InitResult(Collection({}), FALSE)
    ELSE IF fault = "index_topic" THEN InitResult(Collection({"industry"}), FALSE)
    ELSE InitResult(Collection({"industry", "topic"}), TRUE)

\* what a service check came back with: (is_healthy, message), or an exception
CheckReturns(healthy, message) ==
    [raises |-> FALSE, healthy |-> healthy, message |-> message]
CheckRaises(message) == [raises |-> TRUE, healthy |-> FALSE, message |-> message]

\* QdrantService.health_check on `store`; `fault` is the client call that raises
QdrantHealth(store, fault) ==
    IF fault = "get_collections" THEN CheckReturns(FALSE, "Error: get_collections")
    ELSE IF store = None THEN CheckReturns(TRUE, "Connected - collection not initialized")
    ELSE IF fault = "get_collection" THEN CheckReturns(FALSE, "Error: get_collection")
    ELSE CheckReturns(TRUE, "Connected - articles indexed")

\* how the Qdrant check can end for the aggregating health check
QdrantChecks(store) ==
    { QdrantHealth(store, fault) : fault \in {"none", "get_collections", "get_collection"} }
        \cup { CheckRaises("qdrant check raised") }

\* LangChainService.health_check: llm.ainvoke returns or raises
LangChainChecks ==
    { CheckReturns(TRUE, "OpenAI API operational"),
      CheckReturns(FALSE, "Error: ainvoke"),
      CheckRaises("langchain check raised") }

\* the entry health_check stores for a service
ServiceEntry(check) ==
    IF check.raises
    THEN [status |-> "unhealthy", message |-> check.message]
    ELSE [status |-> IF check.healthy THEN "healthy" ELSE "unhealthy",
          message |-> check.message]

\* mutant of OverallStatus: healthy as soon as one service is healthy
OverallStatusAny(services) ==
    IF \E s \in DOMAIN services : services[s].status = "healthy"
    THEN "healthy" ELSE "degraded"

\* "healthy if all services healthy, degraded otherwise"
OverallStatus(services) ==
    IF \A s \in DOMAIN services : services[s].status = "healthy"
    THEN "healthy" ELSE "degraded"

\* routers/health.health_check: the HealthResponse built from the report
HealthResponse(health) ==
    [status |-> IF health.overall_status = "healthy" THEN "healthy" ELSE "degraded",
     services |-> [s \in DOMAIN health.services |-> health.services[s].status]]

\* the HealthResponse of the except branch of the router
HealthFailure(e) == [status |-> "unhealthy", services |-> [error |-> e]]

\* the application is up (lifespan built the Qdrant and LangChain
\* singletons), or the router is used without the startup having run
AdminInit ==
    /\ pc = "idle"
    /\ \E up \in BOOLEAN :
        /\ qdrant_service = IF up THEN "QdrantService" ELSE "None"
        /\ langchain_service = IF up THEN "LangChainService" ELSE "None"
        /\ llm = IF up THEN Some(ConfiguredLlm) ELSE None
    /\ content_generator = "None"
    /\ caller = "lifespan"
    /\ attempt = 0
    /\ retry_delay = 0
    /\ outcomes = << >>
    /\ sleeps = << >>
    /\ raised = 0
    /\ verifyRuns = 0
    /\ req = None
    /\ similar_articles = << >>
    /\ rag_sources_count = 0
    /\ searchCall = None
    /\ llmContext = << >>
    /\ article_content = None
    /\ validation_result = None
    /\ metaReply = None
    /\ extracted_metadata = None
    /\ metadata = None
    /\ article_sections = None
    /\ calls = << >>
    /\ replies = << >>
    /\ stages = << >>
    /\ response = None
    /\ httpError = FALSE
    /\ NoTasks
    /\ NoAdmin

\* a call of QdrantService.initialize_collection (scripts/init_database.py)
InitializeCollection ==
    /\ Len(initCalls) < MaxInitCalls
    /\ \E recreate \in BOOLEAN, fault \in InitSteps \cup {"none"} :
        LET done == initialize_collection(collection, recreate, fault)
        IN  /\ collection' = done.store
            /\ initCalls' = Append(initCalls,
                               [recreate |-> recreate, before |-> collection,
                                after |-> done.store, returned |-> done.result])
    /\ UNCHANGED << mainVars, llm, taskVars, health_status, healthChecks,
                    healthResponse >>

\* GET /health: get_content_generator(), then health_check up to the await of
\* the Qdrant check; a constructor that raises ends in the except branch
HealthBegin ==
    /\ pc = "idle"
    /\ healthChecks' = << >>
    /\ \E built \in BOOLEAN :
        IF NeedsConstruction(content_generator) /\ NeedsConstruction(qdrant_service)
           /\ ~built
        THEN /\ healthResponse' = Some(HealthFailure("constructor"))
             /\ health_status' = None
             /\ pc' = "health_done"
             /\ UNCHANGED << svcVars, llm >>
        ELSE /\ content_generator' = "ContentGeneratorService"
             /\ qdrant_service' = "QdrantService"
             /\ langchain_service' = "LangChainService"
             /\ llm' = Some(ConfiguredLlm)
             /\ health_status' = Some([content_generator |-> "healthy",
                                       services |-> << >>, overall_status |-> "unknown"])
             /\ healthResponse' = None
             /\ pc' = "health_qdrant"
    /\ UNCHANGED << guardVars, reqVars, taskVars, collection, initCalls >>

\* health_check: the Qdrant check is answered
HealthQdrantReply ==
    /\ pc = "health_qdrant"
    /\ \E check \in QdrantChecks(collection) :
        /\ healthChecks' = Append(healthChecks, check)
        /\ health_status' = Some([health_status[1] EXCEPT
                                     !.services = [s \in {"qdrant"} |-> ServiceEntry(check)]])
    /\ pc' = "health_langchain"
    /\ UNCHANGED << svcVars, guardVars, reqVars, llm, taskVars, collection, initCalls,
                    healthResponse >>

\* health_check: the LangChain check is answered, the report is completed and
\* the router builds its HealthResponse
HealthLangChainReply ==
    /\ pc = "health_langchain"
    /\ \E check \in LangChainChecks :
        LET services == [s \in {"qdrant", "langchain"} |->
                            IF s = "qdrant" THEN health_status[1].services["qdrant"]
                            ELSE ServiceEntry(check)]
            health == [health_status[1] EXCEPT
                          !.services = services,
                          !.overall_status = OverallStatus(services)]
        IN  /\ healthChecks' = Append(healthChecks, check)
            /\ health_status' = Some(health)
            /\ healthResponse' = Some(HealthResponse(health))
    /\ pc' = "health_done"
    /\ UNCHANGED << svcVars, guardVars, reqVars, llm, taskVars, collection, initCalls >>

\* the router returns the HealthResponse
HealthReturn ==
    /\ pc = "health_done"
    /\ pc' = "idle"
    /\ UNCHANGED << svcVars, guardVars, reqVars, llm, taskVars, adminVars >>

AdminNext ==
    \/ InitializeCollection
    \/ HealthBegin
    \/ HealthQdrantReply
    \/ HealthLangChainReply
    \/ HealthReturn

AdminSpec == AdminInit /\ [][AdminNext]_vars

(***************************************************************************)
(* Properties                                                              *)
(***************************************************************************)
Answered(call, how) ==
    \E i \in DOMAIN replies : calls[i] = call /\ replies[i] = how
Count(q, x) == Cardinality({i \in DOMAIN q : q[i] = x})
StageRank(st) ==
    CASE st = "Retrieving" -> 1
      [] st = "Generating" -> 2
      [] st = "Validating" -> 3
      [] st = "ExtractingMetadata" -> 4
      [] st = "Segmenting" -> 5
      [] st = "Done" -> 6
CallRank(c) ==
    CASE c = "embed" -> 1
      [] c = "search" -> 2
      [] c = "generate" -> 3
      [] c = "metadata" -> 4
Increasing(q, Rank(_)) ==
    \A i \in DOMAIN q : \A j \in DOMAIN q : i < j => Rank(q[i]) < Rank(q[j])
RECURSIVE Pow2(_)
Pow2(n) == IF n = 0 THEN 1 ELSE 2 * Pow2(n - 1)
Ids(q) == [i \in DOMAIN q |-> q[i].id]

\* C1: whenever the generation call returned text, the envelope of that
\* request has success=true and carries an article; success=false is
\* produced only when the generation call itself failed.
C1_TextMeansSuccess ==
    response # None =>
        /\ Answered("generate", "ok") =>
              (response[1].success /\ response[1].article # None)
        /\ ~response[1].success => Answered("generate", "raise")

\* C2: with use_rag, when the embedding call or the vector search fails,
\* retrieval yields the empty list, the generation call is still issued with
\* no RAG context, and if that call returns text the envelope has
\* success=true and rag_sources_count=0.
C2_RetrievalFailureStillSucceeds ==
    (Answered("embed", "raise") \/ Answered("search", "raise")) =>
        /\ similar_articles = << >>
        /\ "generate" \in Range(calls)
        /\ llmContext = << >>
        /\ (response # None /\ Answered("generate", "ok")) =>
              /\ response[1].success
              /\ response[1].article # None
              /\ response[1].article[1].metadata.rag_sources_count = 0

\* The part of C2 that does not depend on what follows the generation call:
\* a failed retrieval gives the empty list and the generation call is issued
\* without RAG context.
C2_RetrievalDegrades ==
    (Answered("embed", "raise") \/ Answered("search", "raise")) =>
        /\ similar_articles = << >>
        /\ rag_sources_count = 0
        /\ "generate" \in Range(calls)
        /\ llmContext = << >>

\* C3: when the generation call raises, the envelope has success=false, no
\* article and a non-empty error message; no validation, metadata extraction
\* or segmentation is done for the request and the generation call is not
\* issued a second time.
C3_GenerationFailure ==
    Answered("generate", "raise") =>
        /\ response # None
        /\ ~response[1].success
        /\ response[1].article = None
        /\ response[1].error # None
        /\ \E i \in DOMAIN response[1].error[1] : response[1].error[1][i] # ""
        /\ Range(stages) \cap {"Validating", "ExtractingMetadata", "Segmenting"} = {}
        /\ stages[Len(stages)] = "Done"
        /\ Count(calls, "generate") = 1
        /\ calls[Len(calls)] = "generate"
        /\ article_content = None

C3_Witness ==
    /\ pc = "done"
    /\ Answered("generate", "raise")
    /\ response # None /\ response[1].error = Some(ErrorMessage(""))

\* C4: the stages of a request are entered in the fixed order Retrieving
\* (only with use_rag), Generating, Validating, ExtractingMetadata,
\* Segmenting, Done, none of them twice; a successful request entered them
\* all; without use_rag no embedding call and no vector search is issued and
\* rag_sources_count is 0.
C4_StageOrder ==
    req # None =>
        /\ Increasing(stages, StageRank)
        /\ Increasing(calls, CallRank)
        /\ ("Retrieving" \in Range(stages)) = (req[1].use_rag /\ stages # << >>)
        /\ stages # << >> =>
              stages[1] = (IF req[1].use_rag THEN "Retrieving" ELSE "Generating")
        /\ (response # None /\ response[1].success) =>
              stages = (IF req[1].use_rag THEN << "Retrieving" >> ELSE << >>) \o
                       << "Generating", "Validating", "ExtractingMetadata",
                          "Segmenting", "Done" >>
        /\ ~req[1].use_rag =>
              /\ Range(calls) \cap {"embed", "search"} = {}
              /\ searchCall = None
              /\ rag_sources_count = 0
              /\ (response # None /\ response[1].success) =>
                    response[1].article[1].metadata.rag_sources_count = 0

C4_Witness ==
    /\ pc = "done"
    /\ ~req[1].use_rag
    /\ response # None /\ response[1].success
    /\ stages = << "Generating", "Validating", "ExtractingMetadata", "Segmenting", "Done" >>

\* C5: the connection guard makes at most QDRANT_MAX_RETRIES attempts; the
\* sleep after the k-th failed attempt lasts d * 2^(k-1) for d =
\* QDRANT_INITIAL_RETRY_DELAY; no sleep follows the last permitted attempt;
\* and a successful attempt is the last one: no attempt or sleep follows it.
C5_Backoff ==
    /\ Len(outcomes) <= QDRANT_MAX_RETRIES
    /\ Len(sleeps) <= QDRANT_MAX_RETRIES - 1
    /\ \A k \in DOMAIN sleeps : sleeps[k] = QDRANT_INITIAL_RETRY_DELAY * Pow2(k - 1)
    /\ \A k \in DOMAIN outcomes : outcomes[k] = "ok" => (k = Len(outcomes) /\ pc # "verify")
    /\ Len(sleeps) = Count(outcomes, "fail") - (IF raised # 0 THEN 1 ELSE 0)
    /\ pc = "verify" => (attempt = Len(outcomes) + 1 /\ attempt <= QDRANT_MAX_RETRIES)

C5_Witness ==
    /\ outcomes = << "fail", "fail", "fail", "fail", "ok" >>
    /\ sleeps = << 2, 4, 8, 16 >>
    /\ pc = "idle"

C7_GuardRunsOnce ==
    [][qdrant_service = "QdrantService" =>
          (/\ UNCHANGED << outcomes, sleeps, verifyRuns, attempt, retry_delay >>
           /\ pc' # "verify")]_vars

C7_Witness ==
    /\ qdrant_service = "QdrantService"
    /\ content_generator = "ContentGeneratorService"
    /\ verifyRuns = 1
    /\ pc = "done"
    /\ req[1].use_rag
    /\ Answered("search", "ok")

\* C8: the list returned by retrieval has at most rag_top_k elements, each
\* with score >= rag_similarity_threshold, so the context handed to the
\* generator never holds more than rag_top_k documents.
C8_RetrievalBounds ==
    /\ Len(similar_articles) <= rag_top_k
    /\ \A i \in DOMAIN similar_articles :
          similar_articles[i].score >= rag_similarity_threshold
    /\ Len(llmContext) <= rag_top_k

C8_Witness ==
    /\ pc = "generate"
    /\ Len(similar_articles) = rag_top_k
    /\ Len(llmContext) = rag_top_k
    /\ similar_articles[rag_top_k].score = 75

\* C9: the similarity search carries an equality filter on 'industry' if and
\* only if the request's industry is not 'general'; then the filter value is
\* that industry and every returned document has it.
C9_IndustryFilter ==
    searchCall # None =>
        /\ (searchCall[1].query_filter # None) = (req[1].industry # "general")
        /\ searchCall[1].query_filter # None =>
              /\ searchCall[1].query_filter[1] =
                    [key |-> "industry", value |-> req[1].industry]
              /\ \A i \in DOMAIN similar_articles :
                    similar_articles[i].industry = req[1].industry

C9_Witness ==
    /\ searchCall # None
    /\ req[1].industry = "technology"
    /\ Len(similar_articles) = 3

C9_WitnessGeneral ==
    /\ searchCall # None
    /\ req[1].industry = "general"
    /\ \E i, j \in DOMAIN similar_articles :
          similar_articles[i].industry # similar_articles[j].industry

\* C10: the documents returned by the retriever reach the generation prompt
\* unchanged and in the same order, and rag_sources_count (also the one in
\* the article's metadata) is the number of documents in that context.
C10_ContextIsRetrieved ==
    /\ Ids(llmContext) = Ids(similar_articles)
    /\ \A i \in DOMAIN llmContext :
          llmContext[i].ref = i /\ llmContext[i].industry = similar_articles[i].industry
    /\ rag_sources_count = Len(llmContext)
    /\ (response # None /\ response[1].success) =>
          response[1].article[1].metadata.rag_sources_count = Len(llmContext)

C10_Witness ==
    /\ pc = "done"
    /\ response # None /\ response[1].success
    /\ req[1].industry = "general"
    /\ [i \in DOMAIN similar_articles |-> similar_articles[i].score] = << 90, 80, 75 >>
    /\ Ids(llmContext) = << 2, 4, 5 >>
    /\ response[1].article[1].metadata.rag_sources_count = 3

\* C11: the validation outcome is advisory: whatever _validate_article_content
\* reports (valid or not, any number of issues), metadata extraction is
\* entered next, the metadata call is issued when requested, and the success
\* flag and the article of the envelope are determined by the text and the
\* metadata alone; no envelope carries an error raised by validation.
C11_ValidationAdvisory ==
    validation_result # None =>
        /\ validation_result[1].valid = (validation_result[1].issues = << >>)
        /\ "ExtractingMetadata" \in Range(stages)
        /\ req[1].generate_seo_metadata => "metadata" \in Range(calls)
        /\ response # None =>
              /\ response[1].success =
                    (metadata # None /\ Len(article_content[1]) >= CONTENT_MIN_LENGTH)
              /\ response[1].success =>
                    /\ response[1].article[1].content = article_content[1]
                    /\ response[1].article[1].metadata = metadata[1]
                    /\ response[1].article[1].sections = article_sections[1]
              /\ ~response[1].success =>
                    response[1].error[1][2] \in {"AttributeError", "TypeError",
                                                 "ValidationError"}

\* an article with three issues is returned in a success envelope
C11_Witness ==
    /\ pc = "done"
    /\ validation_result # None
    /\ ~validation_result[1].valid
    /\ Len(validation_result[1].issues) = 3
    /\ Answered("metadata", "ok")
    /\ response[1].success

\* so is an article without any issue
C11_WitnessValid ==
    /\ pc = "done"
    /\ validation_result # None
    /\ validation_result[1].valid
    /\ response[1].success

IssueRank(issue) ==
    CASE issue = "Article too short" -> 1
      [] issue = "No H1 title found" -> 2
      [] issue = "Placeholder text detected" -> 3
      [] issue = "Article may lack proper structure (few headings)" -> 4

\* the placeholder markers found in t, letters compared without case
MarkersIn(t) ==
    {k \in DOMAIN PLACEHOLDER_KEYWORDS :
        \E i \in 1..(Len(t) - Len(PLACEHOLDER_KEYWORDS[k]) + 1) :
            \A j \in DOMAIN PLACEHOLDER_KEYWORDS[k] :
                LowerChar(t[i + j - 1]) = LowerChar(PLACEHOLDER_KEYWORDS[k][j])}

C12_WitnessValid ==
    /\ validation_result # None
    /\ validation_result[1].valid
    /\ validation_result[1].issues = << >>

\* a line of t begins with n '#' followed by a whitespace character
MarkerLine(t, n) ==
    \E i \in DOMAIN t :
        /\ i = 1 \/ t[i - 1] = "\n"
        /\ i + n <= Len(t)
        /\ \A k \in i..(i + n - 1) : t[k] = "#"
        /\ t[i + n] \in {" ", "\n", "\t"}

TokenEnds(t) ==
    Cardinality({i \in DOMAIN t :
                    /\ t[i] \notin {" ", "\n", "\t"}
                    /\ i = Len(t) \/ t[i + 1] \in {" ", "\n", "\t"}})

\* C14: for the same text, the word_count of the metadata equals the word_count
\* of the validation report, and both are the number of whitespace-delimited
\* tokens of the whole text.
C14_WordCountAgrees ==
    /\ validation_result # None =>
          validation_result[1].word_count = TokenEnds(article_content[1])
    /\ metadata # None =>
          metadata[1].word_count = TokenEnds(article_content[1])
    /\ (validation_result # None /\ metadata # None) =>
          metadata[1].word_count = validation_result[1].word_count

\* two words between runs of mixed whitespace
C14_Witness ==
    /\ article_content = Some(<< " ", "a", "\n", "\n", "a", " " >>)
    /\ validation_result # None /\ validation_result[1].word_count = 2
    /\ metadata # None /\ metadata[1].word_count = 2

\* n is wc / 200 rounded to the nearest integer, a tie going to the even one
\* (Python's round)
IsRounded(n, wc) ==
    LET twice == IF 200 * n >= wc THEN 2 * (200 * n - wc) ELSE 2 * (wc - 200 * n)
    IN  twice < 200 \/ (twice = 200 /\ n % 2 = 0)

\* C15: reading_time_minutes is max(1, round(word_count / 200)) for the
\* word_count of the same metadata, hence at least 1; 150 words give 1 minute,
\* 1000 words 5 and no word 1.
C15_ReadingTime ==
    metadata # None =>
        LET wc == metadata[1].word_count
            rt == metadata[1].reading_time_minutes
        IN  /\ rt >= 1
            /\ wc = TokenEnds(article_content[1])
            /\ \E n \in 0..(wc \div 200 + 1) :
                  /\ IsRounded(n, wc)
                  /\ rt = (IF n < 1 THEN 1 ELSE n)
            /\ wc = 0 => rt = 1
            /\ wc = 150 => rt = 1
            /\ wc = 1000 => rt = 5

C15_Witness ==
    /\ article_content = Some(OneLetterWords(1000))
    /\ metadata # None
    /\ metadata[1].word_count = 1000
    /\ metadata[1].reading_time_minutes = 5

\* 500 words are 2.5 minutes, rounded to 2
C15_WitnessTie ==
    /\ metadata # None
    /\ metadata[1].word_count = 500
    /\ metadata[1].reading_time_minutes = 2

\* C16: whenever _extract_article_metadata gets past the keyword merge it
\* returns metadata whose meta description has at most 160 characters,
\* whether the candidate came from the LLM reply, from the defaults of a
\* failed LLM call or from the fallback: a candidate of more than 160
\* characters is cut to its first 157 characters plus "...", any other
\* candidate is kept as it is.
C16_MetaDescriptionLength ==
    (extracted_metadata # None /\ KeywordsRaise(extracted_metadata[1]) = None) =>
        /\ metadata # None
        /\ Len(metadata[1].meta_description) <= 160
        /\ LET candidate == CandidateDescription(extracted_metadata[1], article_content[1])
               md == metadata[1].meta_description
           IN  /\ Len(candidate) > 160 =>
                     md = SubSeq(candidate, 1, 157) \o << ".", ".", "." >>
               /\ Len(candidate) <= 160 => md = candidate

\* a description of 161 characters from the LLM is cut to 160
C16_Witness ==
    /\ metaReply # None
    /\ metaReply[1].md # None
    /\ Len(metaReply[1].md[1]) = 161
    /\ metadata # None
    /\ Len(metadata[1].meta_description) = 160
    /\ metadata[1].meta_description[158] = "."

\* one of 160 characters is kept
C16_WitnessKept ==
    /\ metaReply # None
    /\ metaReply[1].md = Some(Rep("x", 160))
    /\ metadata # None
    /\ metadata[1].meta_description = Rep("x", 160)

\* the first 150 characters of t without '#', stripped, plus "..."
StrippedSummary(t) ==
    Strip(SelectSeq(SubSeq(t, 1, IF Len(t) < 150 THEN Len(t) ELSE 150),
                    LAMBDA c : c # "#")) \o << ".", ".", "." >>

\* C17: when the metadata LLM call was requested and failed (it raised, or its
\* reply is not JSON), the meta description is the first 150 characters of
\* the text with '#' removed, plus "..."; and so it is when no SEO metadata
\* was requested.
C17_FailureFallback ==
    metadata # None =>
        /\ (metaReply # None /\ metaReply[1].kind \in {"raise", "text"}) =>
              metadata[1].meta_description = StrippedSummary(article_content[1])
        /\ ~req[1].generate_seo_metadata =>
              metadata[1].meta_description = StrippedSummary(article_content[1])

\* The part of C17 that holds: without SEO metadata, or when the reply is an
\* object without a description, the description is the stripped fallback.
C17_FallbackWhenNoDescription ==
    (/\ metadata # None
     /\ \/ ~req[1].generate_seo_metadata
        \/ /\ metaReply # None
           /\ metaReply[1].kind = "object"
           /\ metaReply[1].md \in {None, Some(<< >>)}) =>
        metadata[1].meta_description = StrippedSummary(article_content[1])

\* What the code does after a failed metadata call: the description is the
\* raw prefix of the text, '#' and surrounding whitespace included.
C17_FailureKeepsRawPrefix ==
    (metadata # None /\ metaReply # None /\ metaReply[1].kind \in {"raise", "text"}) =>
        metadata[1].meta_description =
            SubSeq(article_content[1], 1,
                   IF Len(article_content[1]) < 150 THEN Len(article_content[1]) ELSE 150)
                \o << ".", ".", "." >>

\* request keywords UNION the keywords extracted by the model
KeywordUnion ==
    Range(req[1].keywords) \cup
    (IF extracted_metadata[1].kwt = "list" THEN Range(extracted_metadata[1].kw) ELSE {})

\* C18: the keywords of every metadata are among the request keywords and the
\* extracted keywords, none of them occurs twice, there are at most
\* max_keywords of them, and when the union has at most max_keywords elements
\* the keywords are exactly the union.
C18_Keywords ==
    metadata # None =>
        LET kws == metadata[1].keywords
        IN  /\ BagToSet(kws) \subseteq KeywordUnion
            /\ \A k \in BagToSet(kws) : CopiesIn(k, kws) = 1
            /\ BagCardinality(kws) <= max_keywords
            /\ Cardinality(KeywordUnion) <= max_keywords => BagToSet(kws) = KeywordUnion

\* thirteen distinct keywords are cut to ten, a request keyword among the lost
C18_Witness ==
    /\ metadata # None
    /\ req[1].keywords = << "ai", "seo" >>
    /\ extracted_metadata[1].kw = ElevenKeywords
    /\ BagCardinality(metadata[1].keywords) = 10
    /\ ~BagIn("ai", metadata[1].keywords)

\* a keyword given by the request and by the model is kept once
C18_WitnessOverlap ==
    /\ metadata # None
    /\ req[1].keywords = << "ai", "seo" >>
    /\ extracted_metadata[1].kw = << "seo", "ml" >>
    /\ metadata[1].keywords = SetToBag({"ai", "seo", "ml"})

\* the elements of a set of numbers in increasing order
Ascending(S) ==
    [k \in 1..Cardinality(S) |-> CHOOSE x \in S : Cardinality({y \in S : y < x}) = k - 1]

\* the end of the line that holds index i: the next newline, or Len(t) + 1
EndOfLine(t, i) ==
    IF \E j \in i..Len(t) : t[j] = "\n"
    THEN CHOOSE j \in i..Len(t) : t[j] = "\n" /\ \A k \in i..(j - 1) : t[k] # "\n"
    ELSE Len(t) + 1

\* where the level-2 heading lines of t begin: lines that start with "##"
\* followed by a space or tab and carry heading text
HeadingLines(t) ==
    {i \in DOMAIN t :
        /\ i = 1 \/ t[i - 1] = "\n"
        /\ i + 2 <= Len(t)
        /\ t[i] = "#" /\ t[i + 1] = "#" /\ t[i + 2] \in {" ", "\t"}
        /\ \E j \in (i + 3)..(EndOfLine(t, i) - 1) : t[j] \notin {" ", "\t"}}

\* where a line of t begins with "##" followed by nothing but whitespace
BareMarkerLines(t) ==
    {i \in DOMAIN t :
        /\ i = 1 \/ t[i - 1] = "\n"
        /\ i + 1 <= Len(t)
        /\ t[i] = "#" /\ t[i + 1] = "#"
        /\ \A j \in (i + 2)..(EndOfLine(t, i) - 1) : t[j] \in {" ", "\t"}}

\* one section per level-2 heading line, in document order: the heading text
\* and the text up to the next level-2 heading line, both trimmed
SectionsByLine(t) ==
    LET hs == Ascending(HeadingLines(t))
    IN  [k \in DOMAIN hs |->
            [title |-> Strip(SubSeq(t, hs[k] + 2, EndOfLine(t, hs[k]) - 1)),
             content |-> Strip(SubSeq(t, EndOfLine(t, hs[k]),
                                      IF k < Len(hs) THEN hs[k + 1] - 1 ELSE Len(t)))]]

\* the sections of a result of _extract_sections, None read as no section
SectionList(result) == IF result = None THEN << >> ELSE result[1]

\* C19: _extract_sections yields exactly one section per level-2 heading
\* line, in document order, the heading text as title and the text up to the
\* next level-2 heading line (or the end) as body, both trimmed; what comes
\* before the first such line is dropped and level-1 and level-3 headings
\* start no section.
C19_SectionPerHeadingLine ==
    article_sections # None =>
        SectionList(article_sections[1]) = SectionsByLine(article_content[1])

\* The part of C19 that holds: in a text without a bare "##" line the
\* sections are those of the level-2 heading lines.
C19_SectionsWithoutBareMarker ==
    (article_sections # None /\ BareMarkerLines(article_content[1]) = {}) =>
        SectionList(article_sections[1]) = SectionsByLine(article_content[1])

\* the example of the specification: "Intro" and "Conclusion" give two
\* sections with trimmed bodies, the level-3 heading staying in the body
C19_TwoSections ==
    (article_sections # None /\ article_content = Some(TextTwoSections)) =>
        /\ Len(SectionList(article_sections[1])) = 2
        /\ SectionList(article_sections[1])[1].title = << "I", "n", "t", "r", "o" >>
        /\ SectionList(article_sections[1])[2].title =
              << "C", "o", "n", "c", "l", "u", "s", "i", "o", "n" >>
        /\ SectionList(article_sections[1])[2].content =
              << "a", "b", "c", " ", "a", "b", "c", " ", "e", "n", "d", "." >>

\* C20: for a text without level-2 heading (no line begins with "##"
\* followed by whitespace) the result of _extract_sections is the empty
\* list, Some(<< >>) in this model, where None stands for Python's None.
C20_NoHeadingEmptyList ==
    (article_sections # None /\ ~MarkerLine(article_content[1], 2)) =>
        article_sections[1] = Some(<< >>)

\* What the code returns for such a text: None; and it never returns an
\* empty list for any text.
C20_NoHeadingNone ==
    article_sections # None =>
        /\ ~MarkerLine(article_content[1], 2) => article_sections[1] = None
        /\ article_sections[1] # Some(<< >>)

\* "## " + title + "\n" + body
SectionText(section) ==
    << "#", "#", " " >> \o section.title \o << "\n" >> \o section.content

\* the section texts of S put one after the other
Rebuilt(S) == Flatten([k \in DOMAIN S |-> SectionText(S[k])])

\* the section texts of S, each on lines of its own
RebuiltByLine(S) == Flatten([k \in DOMAIN S |-> SectionText(S[k]) \o << "\n" >>])

NoH1Issue ==
    \E i \in DOMAIN validation_result[1].issues :
        validation_result[1].issues[i] = "No H1 title found"

\* a line of t begins with a single '#' followed by nothing but blanks
BareH1Line(t) ==
    \E i \in DOMAIN t :
        /\ i = 1 \/ t[i - 1] = "\n"
        /\ t[i] = "#"
        /\ \A j \in (i + 1)..(EndOfLine(t, i) - 1) : t[j] \in {" ", "\t"}

\* C28: for every text, the validation report holds "No H1 title found" if
\* and only if extract_title_from_content returns "Untitled Article".
C28_ValidatorAndTitleAgree ==
    (validation_result # None /\ metadata # None) =>
        NoH1Issue = (metadata[1].title = << "U", "n", "t", "i", "t", "l", "e", "d", " ",
                                            "A", "r", "t", "i", "c", "l", "e" >>)

\* The part of C28 that holds: the two agree on every text without a line
\* made of '#' and blanks only.
C28_AgreeWithoutBareMarker ==
    (validation_result # None /\ metadata # None /\ ~BareH1Line(article_content[1])) =>
        NoH1Issue = (metadata[1].title = UNTITLED)

\* reachable: for "#", newline, "a" the validator sees a level-1 heading, the
\* title extractor does not
C28_HeadingOnlyForValidator ==
    /\ validation_result # None /\ metadata # None
    /\ article_content = Some(<< "#", "\n", "a" >>)
    /\ ~NoH1Issue
    /\ metadata[1].title = UNTITLED

\* reachable: for "#", blank the title extractor returns the empty title, the
\* validator sees no level-1 heading
C28_HeadingOnlyForTitle ==
    /\ validation_result # None /\ metadata # None
    /\ article_content = Some(<< "#", " " >>)
    /\ NoH1Issue
    /\ metadata[1].title = << >>

\* C26: an envelope is either success=true with an article and no error, or
\* success=false with an error and no article; its request_id is the one
\* passed in; and once generate_article has issued a call, every failure of a
\* collaborator ends in such an envelope: the router answers HTTP 500 only
\* when the services could not be constructed, before any call was issued.
C26_EnvelopeShapes ==
    /\ response # None =>
          /\ \/ /\ response[1].success
                /\ response[1].article # None
                /\ response[1].error = None
             \/ /\ ~response[1].success
                /\ response[1].article = None
                /\ response[1].error # None
          /\ response[1].request_id = req[1].request_id
    /\ pc = "done" => response # None
    /\ (\E i \in DOMAIN replies : replies[i] = "raise" /\ calls[i] \in {"generate"}) =>
          (response # None /\ ~response[1].success)
    /\ httpError => (calls = << >> /\ response = None)

\* the metadata reply makes the keyword merge raise: a failure envelope with
\* the request's id
C26_Witness ==
    /\ pc = "done"
    /\ Answered("metadata", "ok")
    /\ ~response[1].success
    /\ response[1].error = Some(ErrorMessage("TypeError"))
    /\ response[1].request_id = Some("req-1")

\* C27: within one request every external call is issued at most once, in the
\* order embedding, vector search, generation, metadata extraction; the
\* search only after the embedding call returned, the metadata call only
\* after the generation call returned text and with generate_seo_metadata;
\* and no call is issued once the envelope exists.
C27_CallOrder ==
    /\ [](req # None =>
            /\ Increasing(calls, CallRank)
            /\ "embed" \in Range(calls) => req[1].use_rag
            /\ "search" \in Range(calls) => Answered("embed", "ok")
            /\ "metadata" \in Range(calls) =>
                  (Answered("generate", "ok") /\ req[1].generate_seo_metadata)
            /\ response # None => Len(replies) = Len(calls))
    /\ [][(response # None /\ response' # None) => calls' = calls]_vars

C27_Witness ==
    /\ pc = "done"
    /\ calls = << "embed", "search", "generate", "metadata" >>
    /\ replies = << "ok", "ok", "ok", "raise" >>
    /\ response[1].success

\* C23: the context formatter gives the empty context for an empty document
\* list, and no context enters the prompt when use_rag is false; for a
\* non-empty list the context has one entry per document, in input order,
\* whose preview is the first CONTENT_PREVIEW_LENGTH characters of the
\* document's content (the whole content when it is shorter).
C23_ContextFormat ==
    ("generate" \in Range(calls)) =>
        /\ (~req[1].use_rag \/ similar_articles = << >>) => llmContext = << >>
        /\ (req[1].use_rag /\ similar_articles # << >>) =>
              /\ Len(llmContext) = Len(similar_articles)
              /\ \A i \in DOMAIN llmContext :
                    LET content == similar_articles[i].content
                        preview == llmContext[i].preview
                    IN  /\ llmContext[i].ref = i
                        /\ llmContext[i].id = similar_articles[i].id
                        /\ Len(preview) <= 500
                        /\ Len(preview) <= Len(content)
                        /\ Len(content) >= 500 => Len(preview) = 500
                        /\ Len(content) < 500 => preview = content
                        /\ \A k \in DOMAIN preview : preview[k] = content[k]

\* a context of three entries: a document longer than the preview length, one
\* of exactly that length and a shorter one
C23_Witness ==
    /\ pc = "done"
    /\ req[1].use_rag
    /\ Ids(llmContext) = << 1, 4, 6 >>
    /\ [i \in DOMAIN similar_articles |-> Len(similar_articles[i].content)]
          = << 501, 500, 499 >>
    /\ [i \in DOMAIN llmContext |-> Len(llmContext[i].preview)] = << 500, 500, 499 >>

\* C22: under every interleaving of the requests of two clients, the
\* generation call of a request with a temperature override is made with
\* exactly that temperature, the call of a request without override with the
\* configured default, model and max_tokens are the configured ones in both
\* cases, and the settings of the shared client are never changed.
C22_TemperatureOverride ==
    /\ llm = Some(ConfiguredLlm)
    /\ \A t \in Tasks :
          frame[t].llm_call # None =>
              LET r == submitted[t][1]
                  used == frame[t].llm_call[1]
              IN  /\ r = frame[t].request[1]
                  /\ used.temperature = IF r.temperature # None THEN r.temperature[1]
                                        ELSE llm_temperature
                  /\ used.model = llm_model
                  /\ used.max_tokens = llm_max_tokens

\* both generation calls are in flight: one with the override 0.0, the other
\* with the configured temperature
C22_Witness ==
    /\ frame["a"].pc = "generate" /\ frame["b"].pc = "generate"
    /\ submitted["a"][1].temperature = Some(0)
    /\ submitted["b"][1].temperature = None
    /\ frame["a"].llm_call[1].temperature = 0
    /\ frame["b"].llm_call[1].temperature = 70
    /\ llm[1].temperature = 70

\* the request of client t ended by a cancellation
WasCancelled(t) ==
    received[t] # << >> /\ received[t][Len(received[t])].error = "CancelledError"

\* C24: a request cancelled at one of its suspension points yields no
\* envelope: generate_article is left by the CancelledError, nothing is
\* returned to the client and no response is built from the partial work.
C24_CancelledReturnsNothing ==
    \A t \in Tasks :
        WasCancelled(t) =>
            /\ returned[t] = None
            /\ frame[t].response = None
            /\ frame[t].pc \in { "cancelled", "idle" }

\* a request cancelled during the metadata call, after retrieval and
\* generation succeeded, while the other client's request completes
C24_Witness ==
    /\ WasCancelled("a")
    /\ Len(received["a"]) = 4
    /\ received["a"][3].ok
    /\ frame["a"].pc = "idle"
    /\ returned["a"] = None
    /\ returned["b"] # None /\ returned["b"][1].success

\* generate_article run alone on request r with the replies of `log`
RECURSIVE RunAlone(_, _)
RunAlone(f, log) ==
    IF log = << >> THEN f
    ELSE RunAlone(IF Head(log).error = "CancelledError"
                  THEN CancelFrame(f, ConfiguredLlm)
                  ELSE StepFrame(f, Head(log), ConfiguredLlm),
                  Tail(log))
Alone(r, log) == RunAlone(BeginFrame(r, ConfiguredLlm), log)

\* C25: under every interleaving of two requests, the locals of each call
\* and its envelope (success flag, content, metadata, sections, request_id)
\* are the ones generate_article has when run alone on the same request with
\* the same replies of its collaborators.
C25_NonInterference ==
    \A t \in Tasks :
        /\ frame[t].pc # "idle" =>
              /\ submitted[t] # None
              /\ frame[t] = Alone(submitted[t][1], received[t])
        /\ returned[t] # None =>
              /\ submitted[t] # None
              /\ returned[t] = Alone(submitted[t][1], received[t]).response

\* both requests are in flight, each suspended after calls of its own were
\* answered: one waits for the metadata call of an article built on two
\* retrieved documents, the other for its generation call
C25_Witness ==
    /\ frame["a"].pc = "metadata"
    /\ Len(received["a"]) = 3
    /\ frame["a"].rag_sources_count = 2
    /\ frame["b"].pc = "generate"
    /\ Len(received["b"]) = 2
    /\ frame["b"].similar_articles = << >>

\* both requests returned: one an article, the other a failure
C25_BothReturned ==
    /\ returned["a"] # None /\ returned["a"][1].success
    /\ returned["a"][1].article[1].metadata.rag_sources_count = 2
    /\ returned["a"][1].request_id = Some("req-a")
    /\ returned["b"] # None /\ ~returned["b"][1].success
    /\ returned["b"][1].request_id = Some("req-b")
    /\ Len(received["a"]) = 4 /\ Len(received["b"]) = 3

\* C29: after any sequence of initialize_collection calls, a call that
\* returned True left a collection that exists and has both payload indices
\* ('industry' and 'topic'), and a call with recreate=False on an existing
\* collection changed nothing in the store.
C29_TrueMeansIndexed ==
    \A i \in DOMAIN initCalls :
        LET call == initCalls[i]
        IN  /\ call.returned =>
                  /\ call.after # None
                  /\ call.after[1].indices = PayloadIndices
            /\ (~call.recreate /\ call.before # None) => call.after = call.before

\* the first call created the collection and failed on an index, the second
\* call found the collection and returned True
C29_TrueWithoutIndices ==
    /\ Len(initCalls) = 2
    /\ ~initCalls[1].returned
    /\ initCalls[2].returned /\ ~initCalls[2].recreate
    /\ collection # None
    /\ collection[1].indices # PayloadIndices

\* the checks of the health check that reported healthy
HealthyChecks == { i \in DOMAIN healthChecks :
                     ~healthChecks[i].raises /\ healthChecks[i].healthy }

C30_Healthy ==
    /\ pc = "health_done"
    /\ HealthyChecks = {1, 2}
    /\ healthResponse[1].status = "healthy"

\* the services could not be constructed: the except branch of the router
C30_Unhealthy ==
    /\ pc = "health_done"
    /\ healthResponse # None
    /\ healthResponse[1].status = "unhealthy"

====
